---- MODULE Spec2Model ----
(***************************************************************************)
(* The Streamlit dashboard script streamlit_app.py as a state machine.     *)
(* One step is one user interaction followed by the complete re-run of the *)
(* script that Streamlit performs for it.                                  *)
(*                                                                         *)
(* Numbers are kept in halves (37 is 18.5, 50 is 25) so that fractional    *)
(* values and int() truncation are exact.  A cell that may be missing is a *)
(* sequence of length at most one: <<>> is NaN, <<h>> is the number h/2.   *)
(***************************************************************************)
EXTENDS Integers, Sequences, FiniteSets, TLC

\* Largest number of data rows in the CSV file.
MaxRows == 2
\* Largest whole number that the numeric literals of the model can denote.
MaxNumber == 30

NaN == <<>>
Halves == 0 .. (2 * MaxNumber + 1)

\* Header of bank01_baranda_revised.csv, restricted to the columns the script reads.
Columns == <<"demog_age", "int_tgt", "demog_genm", "demog_genf">>

\* Cells of the CSV file as text.
AgeTokens == {"18.5", "25"}
TgtTokens == {"", "0", "1", "1.5"}
GenderTokens == {<<"yes", "no">>, <<"no", "yes">>}
\* The rows aged 25, inside the age slider's default range, take every int_tgt;
\* the rows aged 18.5, outside it, take int_tgt 0.
TextRows ==
    {r \in [demog_age : AgeTokens, int_tgt : TgtTokens,
            demog_genm : {"yes", "no"}, demog_genf : {"yes", "no"}] :
        /\ <<r.demog_genm, r.demog_genf>> \in GenderTokens
        /\ r.demog_age = "18.5" => r.int_tgt = "0"}
\* The files: at least one customer record after the header.
Files == UNION {[1 .. n -> TextRows] : n \in 1 .. MaxRows}

\* Positions the user drags the sliders to, and values typed into the number input.
AgeStops == {18, 20, 25, 30}
SalesStops == {0, 1, 2}
PredictInputs == {0, 50}

(***************************************************************************)
(* State.                                                                  *)
(***************************************************************************)
VARIABLES
    csv_file,        \* data lines of bank01_baranda_revised.csv, as text cells
    load_cache,      \* st.cache_data entry of load_data: <<>> or <<frame>>
    session_state,   \* widget values Streamlit keeps between re-runs, by key
    status,          \* how the last run of the script ended
    data,            \* the script's global `data` in the last run
    gender,          \* the selectbox value the last run read
    age_range,       \* the age slider value the last run read, <<>> if not reached
    sales_range,     \* the sales slider value the last run read, <<>> if not reached
    filtered_data,   \* the script's global `filtered_data` where the last run ended
    metrics,         \* <<>> or <<the three st.metric values>>
    predicted_sales, \* <<>> or <<the amount written in tab2, in cents>>
    csv_data         \* <<>> or the download button's data

vars == <<csv_file, load_cache, session_state, status, data, gender, age_range,
          sales_range, filtered_data, metrics, predicted_sales, csv_data>>

(***************************************************************************)
(* Text <-> number, as pandas writes and reads it.                         *)
(***************************************************************************)
\* Decimal text of the numbers of the model, computed once.
IntTexts == [h \in Halves |-> ToString(h \div 2)]
FloatTexts == [h \in Halves |-> ToString(h \div 2) \o (IF h % 2 = 0 THEN ".0" ELSE ".5")]

\* str() of an int64 cell
IntText(h) == IntTexts[h]
\* repr() of a float64 cell
FloatText(h) == FloatTexts[h]

\* The literals read_csv takes as whole numbers and as decimals, and their values.
IntLiterals == {IntTexts[h] : h \in {x \in Halves : x % 2 = 0}}
FloatLiterals == {FloatTexts[h] : h \in Halves}
NumberOf ==
    [tok \in IntLiterals \cup FloatLiterals |->
        CHOOSE h \in Halves : tok = FloatTexts[h] \/ (h % 2 = 0 /\ tok = IntTexts[h])]

IsIntLiteral(tok) == tok \in IntLiterals
IsFloatLiteral(tok) == tok \in FloatLiterals
IsNumberToken(tok) == tok = "" \/ IsIntLiteral(tok) \/ IsFloatLiteral(tok)
ParseNumber(tok) == IF tok = "" THEN NaN ELSE <<NumberOf[tok]>>

\* The dtype pandas infers for a column of text cells.
InferDtype(toks) ==
    IF Len(toks) = 0 THEN "object"
    ELSE IF \A i \in 1 .. Len(toks) : IsNumberToken(toks[i])
         THEN IF \A i \in 1 .. Len(toks) : IsIntLiteral(toks[i])
              THEN "int64" ELSE "float64"
         ELSE "object"

ParseCell(dtype, tok) == IF dtype = "object" THEN tok ELSE ParseNumber(tok)

\* pd.read_csv on the data lines of a file whose header is Columns.
read_csv(text) ==
    LET dt == [c \in {Columns[k] : k \in 1 .. Len(Columns)} |->
                  InferDtype([i \in 1 .. Len(text) |-> text[i][c]])]
    IN  [dtypes |-> dt,
         rows |-> [i \in 1 .. Len(text) |->
                     [index |-> i - 1,
                      demog_age |-> ParseCell(dt["demog_age"], text[i].demog_age),
                      int_tgt |-> ParseCell(dt["int_tgt"], text[i].int_tgt),
                      demog_genm |-> ParseCell(dt["demog_genm"], text[i].demog_genm),
                      demog_genf |-> ParseCell(dt["demog_genf"], text[i].demog_genf)]]]

NoFrame == [dtypes |-> [c \in {Columns[k] : k \in 1 .. Len(Columns)} |-> "object"],
            rows |-> <<>>]

(***************************************************************************)
(* pandas operations the script uses.                                      *)
(***************************************************************************)
\* data.fillna(0) in place of data.copy(): every missing int_tgt becomes 0.
DataFrameFillna(df) ==
    [df EXCEPT !.rows = [i \in 1 .. Len(df.rows) |->
        IF df.rows[i].int_tgt = NaN THEN [df.rows[i] EXCEPT !.int_tgt = <<0>>]
        ELSE df.rows[i]]]

\* The run starting from the view the previous run left instead of a copy of data.
DataFrameCopyPrev(df) == IF status = "ok" THEN filtered_data ELSE df

\* DataFrame.copy(): a frame with the same labels, dtypes and values.
DataFrameCopy(df) == df

\* The column name f'demog_gen{gender[0].lower()}'.
GenderColumn(g) == IF g = "Male" THEN "demog_genm" ELSE "demog_genf"

\* The gender mask taken on and applied to data instead of filtered_data:
\* data[data[col] == 'yes'].
GenderFilterFromBase(df, g) ==
    IF g # "All"
    THEN [data EXCEPT !.rows = SelectSeq(@, LAMBDA r : r[GenderColumn(g)] = "yes")]
    ELSE df

\* if gender != 'All': filtered_data[filtered_data[col] == 'yes']
GenderFilter(df, g) ==
    IF g # "All"
    THEN [df EXCEPT !.rows = SelectSeq(@, LAMBDA r : r[GenderColumn(g)] = "yes")]
    ELSE df

\* A comparison of a float cell with a Python int; any comparison with NaN is False.
CellGe(x, k) == x # NaN /\ x[1] >= 2 * k
CellLe(x, k) == x # NaN /\ x[1] <= 2 * k

CellLt(x, k) == x # NaN /\ x[1] < 2 * k

\* The age mask with the upper bound exclusive: demog_age < age_range[1].
AgeFilterStrictUpper(df, rng) ==
    [df EXCEPT !.rows = SelectSeq(@, LAMBDA r :
        CellGe(r.demog_age, rng[1]) /\ CellLt(r.demog_age, rng[2]))]

\* The age mask with the lower comparison turned round: demog_age <= age_range[0].
AgeFilterFlippedLower(df, rng) ==
    [df EXCEPT !.rows = SelectSeq(@, LAMBDA r :
        CellLe(r.demog_age, rng[1]) /\ CellLe(r.demog_age, rng[2]))]

\* filtered_data[(demog_age >= age_range[0]) & (demog_age <= age_range[1])]
AgeFilter(df, rng) ==
    [df EXCEPT !.rows = SelectSeq(@, LAMBDA r :
        CellGe(r.demog_age, rng[1]) /\ CellLe(r.demog_age, rng[2]))]

\* filtered_data[(int_tgt >= sales_range[0]) & (int_tgt <= sales_range[1])]
SalesFilter(df, rng) ==
    [df EXCEPT !.rows = SelectSeq(@, LAMBDA r :
        CellGe(r.int_tgt, rng[1]) /\ CellLe(r.int_tgt, rng[2]))]

\* The values of a column that are not missing (every reduction skips NaN).
Present(df, col) ==
    LET cells == [i \in 1 .. Len(df.rows) |-> df.rows[i][col]]
        kept == SelectSeq(cells, LAMBDA x : x # NaN)
    IN  [i \in 1 .. Len(kept) |-> kept[i][1]]

RECURSIVE SeqSum(_)
SeqSum(s) == IF s = <<>> THEN 0 ELSE Head(s) + SeqSum(Tail(s))

\* Series.min() and Series.max(): NaN when no value is present.
SeriesMin(df, col) ==
    LET v == Present(df, col)
    IN  IF Len(v) = 0 THEN NaN
        ELSE <<CHOOSE m \in {v[i] : i \in 1 .. Len(v)} : \A i \in 1 .. Len(v) : m <= v[i]>>
SeriesMax(df, col) ==
    LET v == Present(df, col)
    IN  IF Len(v) = 0 THEN NaN
        ELSE <<CHOOSE m \in {v[i] : i \in 1 .. Len(v)} : \A i \in 1 .. Len(v) : m >= v[i]>>

\* Series.sum(), in halves: 0 for an empty series.
SeriesSum(df, col) == SeqSum(Present(df, col))
\* Series.mean() as the fraction n/d of halves: NaN for an empty series.
SeriesMean(df, col) ==
    LET v == Present(df, col)
    IN  IF Len(v) = 0 THEN NaN ELSE <<SeqSum(v), Len(v)>>
\* Series.median(), in quarters: NaN for an empty series.
SeriesMedian(df, col) ==
    LET v == SortSeq(Present(df, col), LAMBDA a, b : a < b)
        n == Len(v)
    IN  IF n = 0 THEN NaN
        ELSE IF n % 2 = 1 THEN <<2 * v[(n + 1) \div 2]>>
        ELSE <<v[n \div 2] + v[n \div 2 + 1]>>

\* int(x) of a float: truncation toward zero (the caller has excluded NaN).
PyInt(x) == IF x[1] >= 0 THEN x[1] \div 2 ELSE -((-x[1]) \div 2)

\* n/d rounded to the nearest integer, ties to even (n >= 0, d > 0).
RoundHalfEven(n, d) ==
    LET q == n \div d
        r == n % d
    IN  IF 2 * r < d THEN q
        ELSE IF 2 * r > d THEN q + 1
        ELSE IF q % 2 = 0 THEN q ELSE q + 1

\* f"${x:,.2f}" of a mean n/d of halves, in cents; NaN prints as "$nan".
FormatMean(x) == IF x = NaN THEN NaN ELSE <<RoundHalfEven(50 * x[1], x[2])>>
\* f"${x:,.2f}" of a sum of halves, in cents.
FormatSum(h) == <<50 * h>>
\* f"{x} years" of a median in quarters; NaN prints as "nan years".
FormatMedian(x) == x

\* The three st.metric values of lines 61-63.
Metrics(df) ==
    [mean |-> FormatMean(SeriesMean(df, "int_tgt")),
     total |-> FormatSum(SeriesSum(df, "int_tgt")),
     median |-> FormatMedian(SeriesMedian(df, "demog_age"))]

\* One cell as DataFrame.to_csv writes it: a missing value is the empty field.
FormatCell(dtype, x) ==
    IF dtype = "object" THEN x
    ELSE IF x = NaN THEN ""
    ELSE IF dtype = "int64" THEN IntText(x[1])
    ELSE FloatText(x[1])

\* df.to_csv() with its default index=True: a leading unnamed index column.
to_csv_with_index(df) ==
    <<(<<"">> \o Columns)>> \o
    [i \in 1 .. Len(df.rows) |->
        <<ToString(df.rows[i].index)>> \o
        [k \in 1 .. Len(Columns) |->
            FormatCell(df.dtypes[Columns[k]], df.rows[i][Columns[k]])]]

\* df.to_csv(index=False): the header line, then one line per row, as fields.
\* Joining the fields with "," and the lines with "\n" and encoding as UTF-8
\* keeps them apart: no field of the model holds a comma, a quote or a newline.
to_csv(df) ==
    <<Columns>> \o
    [i \in 1 .. Len(df.rows) |->
        [k \in 1 .. Len(Columns) |->
            FormatCell(df.dtypes[Columns[k]], df.rows[i][Columns[k]])]]

\* @st.cache_data convert_df_to_csv: memoised on the hash of the frame's contents,
\* so a hit returns the bytes of an equal frame.
convert_df_to_csv(df) == to_csv(df)

\* The default value of the age slider, line 43.
DefaultAgeLo == 20
DefaultAgeHi == 30
\* The default value of the number input, line 101.
DefaultInputSales == 50

GenderOptions == {"All", "Male", "Female"}

(***************************************************************************)
(* Streamlit.                                                              *)
(***************************************************************************)
Min2(a, b) == IF a <= b THEN a ELSE b
Max2(a, b) == IF a >= b THEN a ELSE b

\* load_data() handing back, on a hit, the frame object the previous run
\* worked on (a shared object filtered in place) instead of the stored frame.
load_data_shared(cache) ==
    IF cache = <<>> THEN read_csv(csv_file) ELSE filtered_data

\* @st.cache_data load_data(): reads the file on the first call, afterwards
\* returns the stored frame.
load_data(cache) ==
    IF cache = <<>> THEN read_csv(csv_file) ELSE cache[1]

\* st.slider(label, min_value, max_value, value=(lo, hi), key=...) with a range
\* value.  Streamlit widens the bounds so that they contain the default value;
\* the value kept for the key is returned when the widget is the same one as in
\* the previous run (same bounds), the default otherwise.
slider(min_value, max_value, value, kept) ==
    LET lo0 == Min2(min_value, max_value)
        hi0 == Max2(lo0, max_value)
        start == Min2(value[1], value[2])
        end == Max2(value[1], value[2])
        lo == Min2(start, lo0)
        hi == Max2(end, hi0)
    IN  [min_value |-> lo, max_value |-> hi,
         value |-> IF kept # <<>> /\ kept[1].min_value = lo /\ kept[1].max_value = hi
                   THEN kept[1].value ELSE <<start, end>>]

\* predicted_sales = input_sales * 1.2, written with :.2f, in cents.
Predict(input_sales) == 120 * input_sales

(***************************************************************************)
(* One run of the script, top to bottom, from the widget state ss and the  *)
(* load_data cache.  The charts read filtered_data and change no state.    *)
(***************************************************************************)
RunScript(ss, cache) ==
    LET d == load_data(cache)
        g == ss.gender_filter
        f1 == GenderFilter(DataFrameCopy(d), g)
        amin == SeriesMin(f1, "demog_age")
        amax == SeriesMax(f1, "demog_age")
        stopped(where, ss1, ar, fd) ==
            [status |-> where, data |-> d, cache |-> <<d>>, ss |-> ss1, gender |-> g,
             age_range |-> ar, sales_range |-> <<>>, filtered_data |-> fd,
             metrics |-> <<>>, predicted_sales |-> <<>>, csv_data |-> <<>>]
    IN  IF amin = NaN
        THEN \* int(nan) at line 41: ValueError; the widgets keep their state
             stopped("ValueError_line41", ss, <<>>, f1)
        ELSE
        LET aw == slider(PyInt(amin), PyInt(amax), <<DefaultAgeLo, DefaultAgeHi>>,
                         ss.age_slider)
            f2 == AgeFilter(f1, aw.value)
            smin == SeriesMin(d, "int_tgt")
            smax == SeriesMax(d, "int_tgt")
            ss2 == [ss EXCEPT !.age_slider = <<aw>>]
        IN  IF smin = NaN
            THEN \* int(nan) at line 49
                 stopped("ValueError_line49", ss2, aw.value, f2)
            ELSE
            LET sales_min == PyInt(smin)
                sales_max == PyInt(smax)
                sw == slider(sales_min, sales_max, <<sales_min, sales_max>>,
                             ss.sales_slider)
                f3 == SalesFilter(f2, sw.value)
            IN  [status |-> "ok", data |-> d, cache |-> <<d>>,
                 ss |-> [ss2 EXCEPT !.sales_slider = <<sw>>],
                 gender |-> g, age_range |-> aw.value, sales_range |-> sw.value,
                 filtered_data |-> f3,
                 metrics |-> <<Metrics(f3)>>,
                 predicted_sales |-> <<Predict(ss.predict_sales)>>,
                 csv_data |-> convert_df_to_csv(f3)]

\* The script runs with widget state ss and its results become the page.
Rerun(ss) ==
    \E r \in {RunScript(ss, load_cache)} :
        /\ load_cache' = r.cache
        /\ session_state' = r.ss
        /\ status' = r.status
        /\ data' = r.data
        /\ gender' = r.gender
        /\ age_range' = r.age_range
        /\ sales_range' = r.sales_range
        /\ filtered_data' = r.filtered_data
        /\ metrics' = r.metrics
        /\ predicted_sales' = r.predicted_sales
        /\ csv_data' = r.csv_data
        /\ UNCHANGED csv_file

Init ==
    /\ csv_file \in Files
    /\ load_cache = <<>>
    /\ session_state = [gender_filter |-> "All", age_slider |-> <<>>,
                        sales_slider |-> <<>>, predict_sales |-> DefaultInputSales]
    /\ status = "start"
    /\ data = NoFrame
    /\ gender = "All"
    /\ age_range = <<>>
    /\ sales_range = <<>>
    /\ filtered_data = NoFrame
    /\ metrics = <<>>
    /\ predicted_sales = <<>>
    /\ csv_data = <<>>

\* A browser opens the page: the first run, every widget at its default.
OpenSession ==
    /\ status = "start"
    /\ Rerun(session_state)

\* The user picks another gender in the sidebar selectbox (always rendered).
\* A widget re-runs the script when its value changes.
SelectGender ==
    /\ status # "start"
    /\ \E g \in GenderOptions \ {session_state.gender_filter} :
          Rerun([session_state EXCEPT !.gender_filter = g])

\* The user drags one handle of the age slider (rendered once line 40 was
\* reached) to a position within the widget's bounds.
MoveAgeSlider ==
    /\ status \in {"ok", "ValueError_line49"}
    /\ \E lo \in AgeStops, hi \in AgeStops :
          /\ session_state.age_slider[1].min_value <= lo
          /\ lo <= hi
          /\ hi <= session_state.age_slider[1].max_value
          /\ (lo = session_state.age_slider[1].value[1]) # (hi = session_state.age_slider[1].value[2])
          /\ Rerun([session_state EXCEPT !.age_slider[1].value = <<lo, hi>>])

\* The user drags one handle of the sales slider (rendered once line 51 was
\* reached).
MoveSalesSlider ==
    /\ status = "ok"
    /\ \E lo \in SalesStops, hi \in SalesStops :
          /\ session_state.sales_slider[1].min_value <= lo
          /\ lo <= hi
          /\ hi <= session_state.sales_slider[1].max_value
          /\ (lo = session_state.sales_slider[1].value[1]) # (hi = session_state.sales_slider[1].value[2])
          /\ Rerun([session_state EXCEPT !.sales_slider[1].value = <<lo, hi>>])

\* The user types an amount into the number input of tab2 (min_value=0.0).
EnterAverageSales ==
    /\ status = "ok"
    /\ \E x \in PredictInputs \ {session_state.predict_sales} :
          Rerun([session_state EXCEPT !.predict_sales = x])

\* The user clicks the download button: the script re-runs, nothing is changed.
ClickDownload ==
    /\ status = "ok"
    /\ Rerun(session_state)

Next ==
    \/ OpenSession
    \/ SelectGender
    \/ MoveAgeSlider
    \/ MoveSalesSlider
    \/ EnterAverageSales
    \/ ClickDownload

Spec == Init /\ [][Next]_vars

(***************************************************************************)
(* Properties.                                                             *)
(***************************************************************************)
RowSet(df) == {df.rows[i] : i \in 1 .. Len(df.rows)}

\* x is a number with lo <= x <= hi (x in halves, lo and hi whole).
Within(x, lo, hi) == x # NaN /\ 2 * lo <= x[1] /\ x[1] <= 2 * hi

\* The record satisfies the gender predicate of the selection.
GenderOk(r, g) ==
    \/ g = "All"
    \/ g = "Male" /\ r.demog_genm = "yes"
    \/ g = "Female" /\ r.demog_genf = "yes"

\* The rows of `sub` are rows of `base`, under their labels, in base's order,
\* each at most once.
IsSubFrame(sub, base) ==
    /\ \A i \in 1 .. Len(sub.rows) :
          /\ sub.rows[i].index + 1 \in 1 .. Len(base.rows)
          /\ base.rows[sub.rows[i].index + 1] = sub.rows[i]
    /\ \A i \in 1 .. Len(sub.rows), j \in 1 .. Len(sub.rows) :
          i < j => sub.rows[i].index < sub.rows[j].index

\* Every row of view a is a row of view b (rows are told apart by their label).
IsSubView(a, b) ==
    /\ RowSet(a) \subseteq RowSet(b)
    /\ Len(a.rows) <= Len(b.rows)

\* [lo, hi] of a lies within [lo, hi] of b.
Contained(a, b) == b[1] <= a[1] /\ a[2] <= b[2]

DefaultAge == <<DefaultAgeLo, DefaultAgeHi>>

\* C1: a run of the filter pipeline that completes leaves as Filtered View
\* exactly the records of the base set whose gender indicator matches the
\* selection (or any, for All), whose age lies in the selected age interval
\* and whose int_tgt lies in the selected sales interval, each once.
C1_FilterContract ==
    status = "ok" =>
        /\ RowSet(filtered_data) =
              {r \in RowSet(data) :
                  /\ GenderOk(r, gender)
                  /\ Within(r.demog_age, age_range[1], age_range[2])
                  /\ Within(r.int_tgt, sales_range[1], sales_range[2])}
        /\ Cardinality(RowSet(filtered_data)) = Len(filtered_data.rows)

\* A run that kept a row and removed a row under a gender choice.
C1_Witness ==
    /\ status = "ok"
    /\ gender # "All"
    /\ Len(filtered_data.rows) > 0
    /\ Len(filtered_data.rows) < Len(data.rows)

\* C2: after any sequence of interactions, every row of the Filtered View is
\* a row of the loaded dataset with the same field values, rows keep the base
\* set's order and none appears more often than in the base set.
C2_ViewIsSubset == IsSubFrame(filtered_data, data)

\* A view, after the age slider was moved, that holds some but not all rows,
\* of a file in which an int_tgt is missing.
C2_Witness ==
    /\ status = "ok"
    /\ age_range # DefaultAge
    /\ Len(filtered_data.rows) > 0
    /\ Len(filtered_data.rows) < Len(data.rows)
    /\ \E r \in RowSet(data) : r.int_tgt = NaN

\* C3: whenever a run leaves an empty Filtered View, the run completes
\* without raising and no displayed metric is an error or a NaN.
C3_EmptyViewNoData ==
    (status # "start" /\ Len(filtered_data.rows) = 0) =>
        /\ status = "ok"
        /\ metrics[1].mean # NaN
        /\ metrics[1].median # NaN

\* C4: with gender All, age range (20, 30) and the sales slider at the full
\* extent the script computes, the Filtered View is every base record whose
\* age is in [20, 30], and the metrics are those of that subset.
C4_DefaultSalesKeepsAll ==
    ( /\ status = "ok"
      /\ gender = "All"
      /\ age_range = DefaultAge
      /\ sales_range = <<PyInt(SeriesMin(data, "int_tgt")),
                         PyInt(SeriesMax(data, "int_tgt"))>> ) =>
        /\ RowSet(filtered_data) =
              {r \in RowSet(data) : Within(r.demog_age, DefaultAgeLo, DefaultAgeHi)}
        /\ metrics = <<Metrics([data EXCEPT !.rows = SelectSeq(@, LAMBDA r :
                          Within(r.demog_age, DefaultAgeLo, DefaultAgeHi))])>>

\* C5: after every run that completes, both selected intervals lie within the
\* observed bounds: of demog_age in the gender-filtered records, of int_tgt in
\* the base records.
C5_RangesWithinObserved ==
    status = "ok" =>
        LET byGender == [data EXCEPT !.rows = SelectSeq(@, LAMBDA r : GenderOk(r, gender))]
        IN  /\ SeriesMin(byGender, "demog_age")[1] <= 2 * age_range[1]
            /\ age_range[1] <= age_range[2]
            /\ 2 * age_range[2] <= SeriesMax(byGender, "demog_age")[1]
            /\ SeriesMin(data, "int_tgt")[1] <= 2 * sales_range[1]
            /\ sales_range[1] <= sales_range[2]
            /\ 2 * sales_range[2] <= SeriesMax(data, "int_tgt")[1]

\* C6: a step between two completed runs that keeps the gender choice and one
\* interval and moves the other interval to one contained in it leaves a
\* Filtered View whose rows are rows of the one before (so it is no larger).
C6_NarrowingShrinks ==
    [][ ( /\ status = "ok" /\ status' = "ok"
          /\ gender' = gender
          /\ Contained(age_range', age_range)
          /\ Contained(sales_range', sales_range)
          /\ (age_range' = age_range \/ sales_range' = sales_range) )
        => IsSubView(filtered_data', filtered_data) ]_vars

\* An age interval strictly inside the default one, which removed a row the
\* default interval keeps.
C6_Witness ==
    /\ status = "ok"
    /\ age_range # DefaultAge
    /\ Contained(age_range, DefaultAge)
    /\ \E r \in RowSet(data) :
          /\ GenderOk(r, gender)
          /\ Within(r.demog_age, DefaultAgeLo, DefaultAgeHi)
          /\ Within(r.int_tgt, sales_range[1], sales_range[2])
          /\ r \notin RowSet(filtered_data)

Orders ==
    {<<"gender", "age", "sales">>, <<"gender", "sales", "age">>,
     <<"age", "gender", "sales">>, <<"age", "sales", "gender">>,
     <<"sales", "gender", "age">>, <<"sales", "age", "gender">>}

ApplyFilter(name, df) ==
    CASE name = "gender" -> GenderFilter(df, gender)
      [] name = "age" -> AgeFilter(df, age_range)
      [] name = "sales" -> SalesFilter(df, sales_range)

\* C7: for the selection of a completed run, applying the three filters to the
\* base set in any of the six orders gives the Filtered View of the script.
C7_OrderIndependent ==
    status = "ok" =>
        \A o \in Orders :
            ApplyFilter(o[3], ApplyFilter(o[2], ApplyFilter(o[1], DataFrameCopy(data))))
                = filtered_data

\* A view that kept a row, under a gender choice and an age interval that each
\* remove a row of the base set.
C7_Witness ==
    /\ status = "ok"
    /\ gender # "All"
    /\ Len(filtered_data.rows) > 0
    /\ Len(GenderFilter(data, gender).rows) < Len(data.rows)
    /\ Len(AgeFilter(data, age_range).rows) < Len(data.rows)
    /\ Len(SalesFilter(data, sales_range).rows) < Len(data.rows)

\* The data lines of an exported file, as the text rows of a file with that header.
ExportedText(lines) ==
    [i \in 1 .. Len(lines) - 1 |->
        [demog_age |-> lines[i + 1][1], int_tgt |-> lines[i + 1][2],
         demog_genm |-> lines[i + 1][3], demog_genf |-> lines[i + 1][4]]]

C9_BaseImmutable ==
    status # "start" =>
        /\ load_cache = <<read_csv(csv_file)>>
        /\ data = read_csv(csv_file)

\* A page reached through the selectbox, a slider and the prediction input,
\* showing fewer rows than the base set holds.
C9_Witness ==
    /\ status = "ok"
    /\ gender # "All"
    /\ session_state.predict_sales # DefaultInputSales
    /\ sales_range # <<PyInt(SeriesMin(data, "int_tgt")), PyInt(SeriesMax(data, "int_tgt"))>>
    /\ Len(filtered_data.rows) < Len(data.rows)

\* The Filtered View as a function of the file and the selection alone.
ViewOf(text, g, ages, sales) ==
    LET base == read_csv(text)
    IN  [base EXCEPT !.rows = SelectSeq(@, LAMBDA r :
            /\ GenderOk(r, g)
            /\ Within(r.demog_age, ages[1], ages[2])
            /\ Within(r.int_tgt, sales[1], sales[2]))]

====
